---- MODULE Spec2Model ----
(***************************************************************************)
(* The maplibre4UAV dynamic tile server, src/titiler/main.py: a FastAPI    *)
(* application whose handlers resolve a dataset name (or an explicit path) *)
(* to a file under DATA_DIR, open a rio-tiler Reader on it and answer with *)
(* metadata or an encoded tile.                                            *)
(*                                                                         *)
(* Strings of the program are modelled as sequences of one-character       *)
(* strings, so that formatting, globbing, path parsing and route matching  *)
(* are computed character by character as the code and its framework do.   *)
(* The Reader and the image encoder are external: each of their calls has  *)
(* a nondeterministic outcome (a value, TileOutsideBounds, another error). *)
(***************************************************************************)
EXTENDS Integers, Sequences, FiniteSets, TLC

VARIABLES
    fs,       \* the files on disk (read-only): a set of absolute Paths
    pc,       \* pc[r]: where request slot r stands in its handler
    args,     \* args[r]: the handler of slot r and its parameters
    local,    \* local[r]: the handler's local variables (vrt_path, img)
    resp,     \* resp[r]: the response of slot r's handler, once it returned
    calls,    \* calls[r]: the Reader / encoder calls slot r's handler made
    readers   \* the Reader handles that are open

vars == <<fs, pc, args, local, resp, calls, readers>>

(***************************************************************************)
(* Bounds of the model.                                                    *)
(***************************************************************************)
MaxReq == 2     \* request slots of the concurrent specification
MaxCoord == 1   \* z, x, y are drawn from -MaxCoord .. MaxCoord

(***************************************************************************)
(* Strings.                                                                *)
(***************************************************************************)
Code(c) ==
    CASE c = " " -> 32 [] c = "*" -> 42 [] c = "-" -> 45 [] c = "." -> 46
      [] c = "/" -> 47 [] c = "0" -> 48 [] c = "1" -> 49 [] c = "2" -> 50
      [] c = ":" -> 58 [] c = "?" -> 63 [] c = "a" -> 97 [] c = "b" -> 98
      [] c = "d" -> 100 [] c = "e" -> 101 [] c = "s" -> 115 [] c = "t" -> 116
      [] c = "x" -> 120 [] c = "z" -> 122 [] OTHER -> 127

\* Python's str comparison s < t: lexicographic by code point
RECURSIVE StrLess(_, _)
StrLess(s, t) ==
    IF t = <<>> THEN FALSE
    ELSE IF s = <<>> THEN TRUE
    ELSE IF Head(s) = Head(t) THEN StrLess(Tail(s), Tail(t))
    ELSE Code(Head(s)) < Code(Head(t))

StartsWith(s, p) == Len(p) <= Len(s) /\ SubSeq(s, 1, Len(p)) = p

Contains(s, p) == \E i \in 0..(Len(s) - Len(p)) : SubSeq(s, i + 1, i + Len(p)) = p

\* s.rfind(c), 1-based; 0 when c does not occur
RFind(s, c) ==
    LET at == {i \in 1..Len(s) : s[i] = c}
    IN IF at = {} THEN 0 ELSE CHOOSE i \in at : \A j \in at : j <= i

\* s.split(c)
RECURSIVE SplitOn(_, _)
SplitOn(s, c) ==
    LET i == RFind(s, c) IN
    IF i = 0 THEN <<s>>
    ELSE SplitOn(SubSeq(s, 1, i - 1), c) \o <<SubSeq(s, i + 1, Len(s))>>

\* sep.join(parts)
RECURSIVE JoinWith(_, _)
JoinWith(parts, sep) ==
    IF parts = <<>> THEN <<>>
    ELSE IF Len(parts) = 1 THEN parts[1]
    ELSE parts[1] \o sep \o JoinWith(Tail(parts), sep)

\* s.replace(old, new), old non-empty
RECURSIVE Replace(_, _, _)
Replace(s, old, new) ==
    IF s = <<>> THEN <<>>
    ELSE IF StartsWith(s, old)
    THEN new \o Replace(SubSeq(s, Len(old) + 1, Len(s)), old, new)
    ELSE <<Head(s)>> \o Replace(Tail(s), old, new)

Digits == <<"0", "1", "2", "3", "4", "5", "6", "7", "8", "9">>

IsDigit(c) == \E i \in 1..10 : Digits[i] = c

DigitVal(c) == (CHOOSE i \in 1..10 : Digits[i] = c) - 1

RECURSIVE NatStr(_)
NatStr(n) == IF n < 10 THEN <<Digits[n + 1]>> ELSE NatStr(n \div 10) \o <<Digits[(n % 10) + 1]>>

\* str(n)
IntStr(n) == IF n < 0 THEN <<"-">> \o NatStr(-n) ELSE NatStr(n)

RECURSIVE NatOf(_)
NatOf(s) == IF s = <<>> THEN 0 ELSE NatOf(SubSeq(s, 1, Len(s) - 1)) * 10 + DigitVal(s[Len(s)])

\* what the int validation of a path parameter accepts: an optional sign, digits
IsIntStr(s) ==
    LET d == IF s # <<>> /\ Head(s) \in {"-", "+"} THEN Tail(s) ELSE s
    IN d # <<>> /\ \A i \in 1..Len(d) : IsDigit(d[i])

\* int(s), for s with IsIntStr(s)
IntOf(s) ==
    IF Head(s) = "-" THEN -NatOf(Tail(s))
    ELSE IF Head(s) = "+" THEN NatOf(Tail(s))
    ELSE NatOf(s)

VRT == <<".", "v", "r", "t">>

(***************************************************************************)
(* pathlib: a Path is whether it is absolute, and its parts.               *)
(***************************************************************************)
Path(abs, parts) == [abs |-> abs, parts |-> parts]

\* Path(s): empty and "." components are dropped
ParsePath(s) ==
    Path(StartsWith(s, <<"/">>),
         SelectSeq(SplitOn(s, "/"), LAMBDA p : p # <<>> /\ p # <<".">>))

\* str(path)
PathStr(p) ==
    IF p.abs THEN <<"/">> \o JoinWith(p.parts, <<"/">>)
    ELSE IF p.parts = <<>> THEN <<".">>
    ELSE JoinWith(p.parts, <<"/">>)

\* base / other
JoinPath(base, other) ==
    IF other.abs THEN other ELSE Path(base.abs, base.parts \o other.parts)

\* path.name
PathName(p) == IF p.parts = <<>> THEN <<>> ELSE p.parts[Len(p.parts)]

\* path.stem: the name without its last suffix
PathStem(p) ==
    LET name == PathName(p)
        i == RFind(name, ".")
    IN IF 1 < i /\ i < Len(name) THEN SubSeq(name, 1, i - 1) ELSE name

IsUnder(base, p) ==
    /\ p.abs = base.abs
    /\ Len(base.parts) <= Len(p.parts)
    /\ SubSeq(p.parts, 1, Len(base.parts)) = base.parts

\* path.relative_to(base), for a path under base
RelativeTo(p, base) ==
    Path(FALSE, SubSeq(p.parts, Len(base.parts) + 1, Len(p.parts)))

DATA_DIR == Path(TRUE, << <<"d">> >>)

\* path.exists(): a file of fs, or a directory leading to one
Exists(p) == p.abs /\ (p.parts = <<>> \/ \E f \in fs : IsUnder(p, f))

\* fnmatch of one path component: * matches any run, ? any one character
RECURSIVE FnMatch(_, _)
FnMatch(pat, name) ==
    IF pat = <<>> THEN name = <<>>
    ELSE IF Head(pat) = "*"
    THEN FnMatch(Tail(pat), name) \/ (name # <<>> /\ FnMatch(pat, Tail(name)))
    ELSE /\ name # <<>>
         /\ (Head(pat) = "?" \/ Head(pat) = Head(name))
         /\ FnMatch(Tail(pat), Tail(name))

\* DATA_DIR.glob("**/" + pattern): the files at any depth under DATA_DIR
\* whose name matches pattern (a single component)
Glob(pattern) ==
    {f \in fs : IsUnder(DATA_DIR, f) /\ FnMatch(pattern, PathName(f))}

\* the orders in which the filesystem may enumerate a set of files
Enumerations(S) ==
    {e \in [1..Cardinality(S) -> S] : \A i, j \in 1..Cardinality(S) : i # j => e[i] # e[j]}

\* next(generator, None): the first file enumerated, None when there is none
NoPath == [none |-> TRUE]

FirstOf(S) == IF S = {} THEN {NoPath} ELSE S

(***************************************************************************)
(* The external collaborators.  A call of the Reader or of the encoder     *)
(* returns (ok), raises TileOutsideBounds (oob) or raises another          *)
(* exception, whose str() is msg (err).                                    *)
(***************************************************************************)
Ok == [kind |-> "ok"]

Oob == [kind |-> "oob"]

Err(m) == [kind |-> "err", msg |-> m]

ErrMsgs == {<<"b", "o", "o", "m">>, <<"b", "a", "d">>}

Outcomes == {Ok, Oob} \cup {Err(m) : m \in ErrMsgs}

\* the snapshots src.info() may return; minzoom / maxzoom may be missing
Infos ==
    {[bounds |-> <<0, 0, 2, 4>>, crs |-> [epsg |-> 4326], width |-> 8, height |-> 4,
      band_metadata |-> <<>>, band_descriptions |-> <<>>, dtype |-> "uint8",
      minzoom |-> 5, maxzoom |-> 18],
     [bounds |-> <<-4, -2, 0, 0>>, crs |-> [epsg |-> 3857], width |-> 4, height |-> 2,
      band_metadata |-> <<>>, band_descriptions |-> <<>>, dtype |-> "uint8"]}

\* str(info.crs)
CrsStr(crs) == <<"E", "P", "S", "G", ":">> \o IntStr(crs.epsg)

\* getattr(info, name, default)
GetAttr(info, name, default) == IF name \in DOMAIN info THEN info[name] ELSE default

(***************************************************************************)
(* Responses.                                                              *)
(***************************************************************************)
\* Response(status_code=, content=, media_type=, headers=)
Response(status, content, media_type, headers) ==
    [status |-> status, body |-> content, media_type |-> media_type, headers |-> headers]

Text(s) == [text |-> s]

\* a dict returned by a handler: FastAPI answers 200 with its JSON
JsonResponse(obj) == Response(200, [json |-> obj], "application/json", {})

NoResp == Response(0, Text(<<>>), "none", {})

NoArgs == [h |-> "none"]

NoLocal == [vrt_path |-> NoPath]

\* f"Dataset {dataset} not found"
DatasetNotFound(dataset) ==
    Response(404,
             Text(<<"D", "a", "t", "a", "s", "e", "t", " ">> \o dataset
                  \o <<" ", "n", "o", "t", " ", "f", "o", "u", "n", "d">>),
             "none", {})

(***************************************************************************)
(* Steps shared by the handlers' text.                                     *)
(***************************************************************************)
\* a handler can be entered on a slot with no request in flight
Free(r) == pc[r] = "idle"

\* vrt_path = DATA_DIR / f"{dataset}.vrt"; if it does not exist,
\* vrt_path = next(DATA_DIR.glob(f"**/{dataset}.vrt"), None); first is what the
\* glob enumerates first
Lookup(dataset, first) ==
    LET vrt_path == JoinPath(DATA_DIR, ParsePath(dataset \o VRT))
    IN IF Exists(vrt_path) THEN vrt_path ELSE first

\* whether DATA_DIR.glob("**/" + pattern) raises ValueError ("'**' can only be
\* an entire path component"): a strict pathlib (Python 3.11 and 3.12 are)
\* does for a component that holds "**" beside other characters; one that
\* accepts the pattern reads each * as a wildcard
GlobRaises(pattern, strict) == strict /\ Contains(pattern, <<"*", "*">>)

\* whether the lookup of dataset ends in that ValueError: the glob is
\* reached only when DATA_DIR / f"{dataset}.vrt" does not exist
LookupRaises(dataset, strict) ==
    /\ ~Exists(JoinPath(DATA_DIR, ParsePath(dataset \o VRT)))
    /\ GlobRaises(dataset \o VRT, strict)

\* not vrt_path or not vrt_path.exists()
Missing(vrt_path) == vrt_path = NoPath \/ ~Exists(vrt_path)

\* the handle of the Reader slot r opened
Handle(r) == [slot |-> r, path |-> PathStr(local[r].vrt_path)]

\* with Reader(str(vrt_path)) as src: entering; the handle is open when the
\* constructor returned
ReaderEnter(r, o) ==
    /\ calls' = [calls EXCEPT ![r] =
                    Append(@, [op |-> "open", path |-> PathStr(local[r].vrt_path), result |-> o])]
    /\ readers' = IF o.kind = "ok" THEN readers \cup {Handle(r)} ELSE readers

\* fault: the Reader is closed on the normal exit only, not when an exception
\* leaves the block
ReaderExitLeak(r, made) ==
    /\ calls' = [calls EXCEPT ![r] = @ \o made \o <<[op |-> "close"]>>]
    /\ readers' = IF made[Len(made)].result.kind = "ok" THEN readers \ {Handle(r)} ELSE readers

\* leaving the with block, by return or by exception, after the calls made in
\* it: the Reader is closed
ReaderExit(r, made) ==
    /\ calls' = [calls EXCEPT ![r] = @ \o made \o <<[op |-> "close"]>>]
    /\ readers' = readers \ {Handle(r)}

\* the handler returns response
Return(r, response) ==
    /\ resp' = [resp EXCEPT ![r] = response]
    /\ pc' = [pc EXCEPT ![r] = "done"]

\* an exception leaves the handler
Raise(r) ==
    /\ resp' = [resp EXCEPT ![r] = NoResp]
    /\ pc' = [pc EXCEPT ![r] = "raised"]

\* a request enters handler a.h: its locals are fresh
Enter(r, a) ==
    /\ Free(r)
    /\ args' = [args EXCEPT ![r] = a]
    /\ calls' = [calls EXCEPT ![r] = <<>>]

(***************************************************************************)
(* GET /health                                                             *)
(***************************************************************************)
health(r) ==
    /\ Enter(r, [h |-> "health"])
    /\ Return(r, JsonResponse([status |-> "ok"]))
    /\ local' = [local EXCEPT ![r] = NoLocal]
    /\ UNCHANGED <<fs, readers>>

(***************************************************************************)
(* GET /datasets                                                           *)
(***************************************************************************)
\* sorted(vrts, key=lambda x: x.stem): stable, so files of equal stem keep
\* the order they are given in
RECURSIVE SortedByStem(_)
SortedByStem(vrts) ==
    IF vrts = <<>> THEN <<>>
    ELSE LET n == Len(vrts)
             v == vrts[n]
             done == SortedByStem(SubSeq(vrts, 1, n - 1))
             \* v goes after every element that is not greater than it
             k == Cardinality({i \in 1..Len(done) : ~StrLess(PathStem(v), PathStem(done[i]))})
         IN SubSeq(done, 1, k) \o <<v>> \o SubSeq(done, k + 1, Len(done))

\* vrts is list(DATA_DIR.glob("**/*.vrt")), in the order enumerated
list_datasets(r, vrts) ==
    /\ Enter(r, [h |-> "list_datasets"])
    /\ vrts \in Enumerations(Glob(<<"*">> \o VRT))
    /\ LET sorted == SortedByStem(vrts)
       IN Return(r, JsonResponse([datasets |->
              [i \in 1..Len(sorted) |->
                  [name |-> PathStem(sorted[i]),
                   path |-> PathStr(RelativeTo(sorted[i], DATA_DIR))]]]))
    /\ local' = [local EXCEPT ![r] = NoLocal]
    /\ UNCHANGED <<fs, readers>>

(***************************************************************************)
(* GET /datasets/{dataset}/info                                            *)
(***************************************************************************)
dataset_info_lookup(r, dataset, first, strict) ==
    /\ Enter(r, [h |-> "dataset_info", dataset |-> dataset])
    /\ first \in FirstOf(Glob(dataset \o VRT))
    /\ LET vrt_path == Lookup(dataset, first)
       IN IF LookupRaises(dataset, strict)
          THEN /\ Raise(r)
               /\ local' = [local EXCEPT ![r] = NoLocal]
          ELSE IF Missing(vrt_path)
          THEN /\ Return(r, DatasetNotFound(dataset))
               /\ local' = [local EXCEPT ![r] = NoLocal]
          ELSE /\ pc' = [pc EXCEPT ![r] = "open"]
               /\ resp' = [resp EXCEPT ![r] = NoResp]
               /\ local' = [local EXCEPT ![r] = [vrt_path |-> vrt_path]]
    /\ UNCHANGED <<fs, readers>>

dataset_info_open(r, o) ==
    /\ pc[r] = "open" /\ args[r].h = "dataset_info"
    /\ ReaderEnter(r, o)
    /\ IF o.kind = "ok"
       THEN pc' = [pc EXCEPT ![r] = "info"] /\ UNCHANGED resp
       ELSE Raise(r)
    /\ UNCHANGED <<fs, args, local>>

dataset_info_info(r, o, info) ==
    /\ pc[r] = "info" /\ args[r].h = "dataset_info"
    /\ ReaderExit(r, <<[op |-> "info", result |-> o]>>)
    /\ IF o.kind = "ok"
       THEN Return(r, JsonResponse(
                [name |-> args[r].dataset,
                 bounds |-> info.bounds,
                 crs |-> CrsStr(info.crs),
                 width |-> info.width,
                 height |-> info.height,
                 band_metadata |-> info.band_metadata,
                 band_descriptions |-> info.band_descriptions,
                 dtype |-> info.dtype,
                 minzoom |-> GetAttr(info, "minzoom", 0),
                 maxzoom |-> GetAttr(info, "maxzoom", 22)]))
       ELSE Raise(r)
    /\ UNCHANGED <<fs, args, local>>

(***************************************************************************)
(* GET /datasets/{dataset}/bounds                                          *)
(***************************************************************************)
dataset_bounds_lookup(r, dataset, first, strict) ==
    /\ Enter(r, [h |-> "dataset_bounds", dataset |-> dataset])
    /\ first \in FirstOf(Glob(dataset \o VRT))
    /\ LET vrt_path == Lookup(dataset, first)
       IN IF LookupRaises(dataset, strict)
          THEN /\ Raise(r)
               /\ local' = [local EXCEPT ![r] = NoLocal]
          ELSE IF Missing(vrt_path)
          THEN /\ Return(r, DatasetNotFound(dataset))
               /\ local' = [local EXCEPT ![r] = NoLocal]
          ELSE /\ pc' = [pc EXCEPT ![r] = "open"]
               /\ resp' = [resp EXCEPT ![r] = NoResp]
               /\ local' = [local EXCEPT ![r] = [vrt_path |-> vrt_path]]
    /\ UNCHANGED <<fs, readers>>

dataset_bounds_open(r, o) ==
    /\ pc[r] = "open" /\ args[r].h = "dataset_bounds"
    /\ ReaderEnter(r, o)
    /\ IF o.kind = "ok"
       THEN pc' = [pc EXCEPT ![r] = "info"] /\ UNCHANGED resp
       ELSE Raise(r)
    /\ UNCHANGED <<fs, args, local>>

dataset_bounds_info(r, o, info) ==
    /\ pc[r] = "info" /\ args[r].h = "dataset_bounds"
    /\ ReaderExit(r, <<[op |-> "info", result |-> o]>>)
    /\ IF o.kind = "ok"
       THEN LET bounds == info.bounds
            IN Return(r, JsonResponse(
                [bounds |-> <<bounds[1], bounds[2], bounds[3], bounds[4]>>,
                 center |-> <<(bounds[1] + bounds[3]) \div 2, (bounds[2] + bounds[4]) \div 2>>,
                 minzoom |-> GetAttr(info, "minzoom", 0),
                 maxzoom |-> GetAttr(info, "maxzoom", 22)]))
       ELSE Raise(r)
    /\ UNCHANGED <<fs, args, local>>

(***************************************************************************)
(* GET /datasets/{dataset}/tilejson.json?tile_format=                      *)
(***************************************************************************)
\* f"/datasets/{dataset}/tiles/{{z}}/{{x}}/{{y}}.{tile_format}"
TilesTemplate(dataset, tile_format) ==
    <<"/", "d", "a", "t", "a", "s", "e", "t", "s", "/">> \o dataset
    \o <<"/", "t", "i", "l", "e", "s", "/", "{", "z", "}", "/", "{", "x", "}", "/",
         "{", "y", "}", ".">>
    \o tile_format

tilejson_lookup(r, dataset, tile_format, first, strict) ==
    /\ Enter(r, [h |-> "tilejson", dataset |-> dataset, tile_format |-> tile_format])
    /\ first \in FirstOf(Glob(dataset \o VRT))
    /\ LET vrt_path == Lookup(dataset, first)
       IN IF LookupRaises(dataset, strict)
          THEN /\ Raise(r)
               /\ local' = [local EXCEPT ![r] = NoLocal]
          ELSE IF Missing(vrt_path)
          THEN /\ Return(r, DatasetNotFound(dataset))
               /\ local' = [local EXCEPT ![r] = NoLocal]
          ELSE /\ pc' = [pc EXCEPT ![r] = "open"]
               /\ resp' = [resp EXCEPT ![r] = NoResp]
               /\ local' = [local EXCEPT ![r] = [vrt_path |-> vrt_path]]
    /\ UNCHANGED <<fs, readers>>

tilejson_open(r, o) ==
    /\ pc[r] = "open" /\ args[r].h = "tilejson"
    /\ ReaderEnter(r, o)
    /\ IF o.kind = "ok"
       THEN pc' = [pc EXCEPT ![r] = "info"] /\ UNCHANGED resp
       ELSE Raise(r)
    /\ UNCHANGED <<fs, args, local>>

tilejson_info(r, o, info) ==
    /\ pc[r] = "info" /\ args[r].h = "tilejson"
    /\ ReaderExit(r, <<[op |-> "info", result |-> o]>>)
    /\ IF o.kind = "ok"
       THEN LET bounds == info.bounds
            IN Return(r, JsonResponse(
                [tilejson |-> "3.0.0",
                 name |-> args[r].dataset,
                 tiles |-> <<TilesTemplate(args[r].dataset, args[r].tile_format)>>,
                 bounds |-> <<bounds[1], bounds[2], bounds[3], bounds[4]>>,
                 center |-> <<(bounds[1] + bounds[3]) \div 2, (bounds[2] + bounds[4]) \div 2, 15>>,
                 minzoom |-> GetAttr(info, "minzoom", 0),
                 maxzoom |-> GetAttr(info, "maxzoom", 22)]))
       ELSE Raise(r)
    /\ UNCHANGED <<fs, args, local>>

(***************************************************************************)
(* Routing of the two tile endpoints.  A path parameter {name} matches a   *)
(* non-empty run without "/", greedily; z, x, y are then validated as int. *)
(***************************************************************************)
PNG == <<"p", "n", "g">>

JPG == <<"j", "p", "g">>

JPEG == <<"j", "p", "e", "g">>

WEBP == <<"w", "e", "b", "p">>

NoMatch == [matched |-> FALSE]

\* the segment "{y}.{format}": y runs to the last "." that leaves a format
YDotFormat(seg) ==
    LET i == IF seg = <<>> THEN 0 ELSE RFind(SubSeq(seg, 1, Len(seg) - 1), ".")
    IN IF i > 1
       THEN [matched |-> TRUE, y |-> SubSeq(seg, 1, i - 1), format |-> SubSeq(seg, i + 1, Len(seg))]
       ELSE NoMatch

\* the parameters of a matched route, z: int, x: int, y: int validated
TileParams(dataset, z, x, yf) ==
    IF z # <<>> /\ x # <<>> /\ yf.matched
    THEN [matched |-> TRUE,
          valid |-> IsIntStr(z) /\ IsIntStr(x) /\ IsIntStr(yf.y),
          dataset |-> dataset, z |-> z, x |-> x, y |-> yf.y, format |-> yf.format]
    ELSE NoMatch

\* @app.get("/datasets/{dataset}/tiles/{z}/{x}/{y}.{format}")
RouteGetTile(path) ==
    LET seg == SplitOn(path, "/")
    IN IF /\ Len(seg) = 7
          /\ seg[1] = <<>>
          /\ seg[2] = <<"d", "a", "t", "a", "s", "e", "t", "s">>
          /\ seg[3] # <<>>
          /\ seg[4] = <<"t", "i", "l", "e", "s">>
       THEN TileParams(seg[3], seg[5], seg[6], YDotFormat(seg[7]))
       ELSE NoMatch

\* @app.get("/tiles/{z}/{x}/{y}.{format}")
RouteTiles(path) ==
    LET seg == SplitOn(path, "/")
    IN IF /\ Len(seg) = 5
          /\ seg[1] = <<>>
          /\ seg[2] = <<"t", "i", "l", "e", "s">>
       THEN TileParams(<<>>, seg[3], seg[4], YDotFormat(seg[5]))
       ELSE NoMatch

(***************************************************************************)
(* GET /datasets/{dataset}/tiles/{z}/{x}/{y}.{format}                      *)
(***************************************************************************)
\* fault: a JPEG quality of 58
GetTileEncodeQuality(format) ==
    IF format = PNG
    THEN [kwargs |-> [img_format |-> "PNG"], media_type |-> "image/png"]
    ELSE IF format \in {JPG, JPEG}
    THEN [kwargs |-> [img_format |-> "JPEG", quality |-> 58], media_type |-> "image/jpeg"]
    ELSE IF format = WEBP
    THEN [kwargs |-> [img_format |-> "WEBP", quality |-> 85], media_type |-> "image/webp"]
    ELSE [kwargs |-> [img_format |-> "PNG"], media_type |-> "image/png"]

\* the if / elif chain on format: the keyword arguments of img.render and
\* the media type
GetTileEncode(format) ==
    IF format = PNG
    THEN [kwargs |-> [img_format |-> "PNG"], media_type |-> "image/png"]
    ELSE IF format \in {JPG, JPEG}
    THEN [kwargs |-> [img_format |-> "JPEG", quality |-> 85], media_type |-> "image/jpeg"]
    ELSE IF format = WEBP
    THEN [kwargs |-> [img_format |-> "WEBP", quality |-> 85], media_type |-> "image/webp"]
    ELSE [kwargs |-> [img_format |-> "PNG"], media_type |-> "image/png"]

\* fault: except Exception placed before except TileOutsideBounds
GetTileExceptSwapped(e) ==
    IF e.kind = "err" \/ e.kind = "oob"
    THEN Response(500, Text(IF e.kind = "err" THEN e.msg ELSE <<>>), "none", {})
    ELSE Response(204, Text(<<>>), "none", {})

\* except TileOutsideBounds: ... except Exception as e: ...
GetTileExcept(e) ==
    IF e.kind = "oob"
    THEN Response(204, Text(<<>>), "none", {})
    ELSE Response(500, Text(e.msg), "none", {})

get_tile_lookup(r, path, first, strict) ==
    LET q == RouteGetTile(path) IN
    /\ Free(r)
    /\ q.matched /\ q.valid
    /\ Enter(r, [h |-> "get_tile", dataset |-> q.dataset, z |-> IntOf(q.z),
                 x |-> IntOf(q.x), y |-> IntOf(q.y), format |-> q.format])
    /\ first \in FirstOf(Glob(q.dataset \o VRT))
    /\ LET vrt_path == Lookup(q.dataset, first)
       IN IF LookupRaises(q.dataset, strict)
          THEN /\ Raise(r)
               /\ local' = [local EXCEPT ![r] = NoLocal]
          ELSE IF Missing(vrt_path)
          THEN /\ Return(r, DatasetNotFound(q.dataset))
               /\ local' = [local EXCEPT ![r] = NoLocal]
          ELSE /\ pc' = [pc EXCEPT ![r] = "open"]
               /\ resp' = [resp EXCEPT ![r] = NoResp]
               /\ local' = [local EXCEPT ![r] = [vrt_path |-> vrt_path]]
    /\ UNCHANGED <<fs, readers>>

get_tile_open(r, o) ==
    /\ pc[r] = "open" /\ args[r].h = "get_tile"
    /\ ReaderEnter(r, o)
    /\ IF o.kind = "ok"
       THEN pc' = [pc EXCEPT ![r] = "tile"] /\ UNCHANGED resp
       ELSE Return(r, GetTileExcept(o))
    /\ UNCHANGED <<fs, args, local>>

\* img = src.tile(x, y, z, tilesize=256)
get_tile_tile(r, o) ==
    LET call == [op |-> "tile", x |-> args[r].x, y |-> args[r].y, z |-> args[r].z,
                 tilesize |-> 256, result |-> o]
    IN
    /\ pc[r] = "tile" /\ args[r].h = "get_tile"
    /\ IF o.kind = "ok"
       THEN /\ calls' = [calls EXCEPT ![r] = Append(@, call)]
            /\ local' = [local EXCEPT ![r] =
                            [vrt_path |-> @.vrt_path,
                             img |-> [file |-> @.vrt_path, x |-> call.x, y |-> call.y,
                                      z |-> call.z, tilesize |-> call.tilesize]]]
            /\ pc' = [pc EXCEPT ![r] = "render"]
            /\ UNCHANGED <<resp, readers>>
       ELSE /\ ReaderExit(r, <<call>>)
            /\ Return(r, GetTileExcept(o))
            /\ UNCHANGED local
    /\ UNCHANGED <<fs, args>>

get_tile_render(r, o) ==
    LET enc == GetTileEncode(args[r].format)
        call == [op |-> "render", kwargs |-> enc.kwargs, result |-> o]
    IN
    /\ pc[r] = "render" /\ args[r].h = "get_tile"
    /\ ReaderExit(r, <<call>>)
    /\ IF o.kind = "ok"
       THEN Return(r, Response(200,
                               [image |-> [img |-> local[r].img, kwargs |-> enc.kwargs]],
                               enc.media_type,
                               {<<"Cache-Control", "public, max-age=3600">>}))
       ELSE Return(r, GetTileExcept(o))
    /\ UNCHANGED <<fs, args, local>>

(***************************************************************************)
(* GET /tiles/{z}/{x}/{y}.{format}?url=                                    *)
(***************************************************************************)
\* fault: jpg is not treated as JPEG
ByUrlEncodeNoJpg(format) ==
    IF format = PNG
    THEN [kwargs |-> [img_format |-> "PNG"], media_type |-> "image/png"]
    ELSE IF format = JPG
    THEN [kwargs |-> [img_format |-> "JPEG", quality |-> 85], media_type |-> "image/jpeg"]
    ELSE IF format = WEBP
    THEN [kwargs |-> [img_format |-> "WEBP", quality |-> 85], media_type |-> "image/webp"]
    ELSE [kwargs |-> [img_format |-> "PNG"], media_type |-> "image/png"]

\* the if / elif chain on format
ByUrlEncode(format) ==
    IF format = PNG
    THEN [kwargs |-> [img_format |-> "PNG"], media_type |-> "image/png"]
    ELSE IF format \in {JPG, JPEG}
    THEN [kwargs |-> [img_format |-> "JPEG", quality |-> 85], media_type |-> "image/jpeg"]
    ELSE IF format = WEBP
    THEN [kwargs |-> [img_format |-> "WEBP", quality |-> 85], media_type |-> "image/webp"]
    ELSE [kwargs |-> [img_format |-> "PNG"], media_type |-> "image/png"]

\* except TileOutsideBounds: ... except Exception as e: ...
ByUrlExcept(e) ==
    IF e.kind = "oob"
    THEN Response(204, Text(<<>>), "none", {})
    ELSE Response(500, Text(e.msg), "none", {})

\* fault: every url is joined under the root
ByUrlPathUnderRoot(url) == JoinPath(DATA_DIR, Path(FALSE, ParsePath(url).parts))

\* Path(url) if url.startswith("/") else DATA_DIR / url
ByUrlPath(url) ==
    IF StartsWith(url, <<"/">>) THEN ParsePath(url) ELSE JoinPath(DATA_DIR, ParsePath(url))

\* url is the query parameter, "" when the request has none
get_tile_by_url_lookup(r, path, url) ==
    LET q == RouteTiles(path) IN
    /\ Free(r)
    /\ q.matched /\ q.valid
    /\ Enter(r, [h |-> "get_tile_by_url", z |-> IntOf(q.z), x |-> IntOf(q.x),
                 y |-> IntOf(q.y), format |-> q.format, url |-> url])
    /\ IF url = <<>>
       THEN /\ Return(r, Response(400,
                   Text(<<"u", "r", "l", " ", "p", "a", "r", "a", "m", "e", "t", "e", "r",
                          " ", "r", "e", "q", "u", "i", "r", "e", "d">>), "none", {}))
            /\ local' = [local EXCEPT ![r] = NoLocal]
       ELSE LET vrt_path == ByUrlPath(url)
            IN IF ~Exists(vrt_path)
               THEN /\ Return(r, Response(404,
                           Text(<<"F", "i", "l", "e", " ", "n", "o", "t", " ", "f", "o", "u",
                                  "n", "d", ":", " ">> \o url), "none", {}))
                    /\ local' = [local EXCEPT ![r] = NoLocal]
               ELSE /\ pc' = [pc EXCEPT ![r] = "open"]
                    /\ resp' = [resp EXCEPT ![r] = NoResp]
                    /\ local' = [local EXCEPT ![r] = [vrt_path |-> vrt_path]]
    /\ UNCHANGED <<fs, readers>>

get_tile_by_url_open(r, o) ==
    /\ pc[r] = "open" /\ args[r].h = "get_tile_by_url"
    /\ ReaderEnter(r, o)
    /\ IF o.kind = "ok"
       THEN pc' = [pc EXCEPT ![r] = "tile"] /\ UNCHANGED resp
       ELSE Return(r, ByUrlExcept(o))
    /\ UNCHANGED <<fs, args, local>>

\* img = src.tile(x, y, z, tilesize=256)
get_tile_by_url_tile(r, o) ==
    LET call == [op |-> "tile", x |-> args[r].x, y |-> args[r].y, z |-> args[r].z,
                 tilesize |-> 256, result |-> o]
    IN
    /\ pc[r] = "tile" /\ args[r].h = "get_tile_by_url"
    /\ IF o.kind = "ok"
       THEN /\ calls' = [calls EXCEPT ![r] = Append(@, call)]
            /\ local' = [local EXCEPT ![r] =
                            [vrt_path |-> @.vrt_path,
                             img |-> [file |-> @.vrt_path, x |-> call.x, y |-> call.y,
                                      z |-> call.z, tilesize |-> call.tilesize]]]
            /\ pc' = [pc EXCEPT ![r] = "render"]
            /\ UNCHANGED <<resp, readers>>
       ELSE /\ ReaderExit(r, <<call>>)
            /\ Return(r, ByUrlExcept(o))
            /\ UNCHANGED local
    /\ UNCHANGED <<fs, args>>

get_tile_by_url_render(r, o) ==
    LET enc == ByUrlEncode(args[r].format)
        call == [op |-> "render", kwargs |-> enc.kwargs, result |-> o]
    IN
    /\ pc[r] = "render" /\ args[r].h = "get_tile_by_url"
    /\ ReaderExit(r, <<call>>)
    /\ IF o.kind = "ok"
       THEN Return(r, Response(200,
                               [image |-> [img |-> local[r].img, kwargs |-> enc.kwargs]],
                               enc.media_type,
                               {<<"Cache-Control", "public, max-age=3600">>}))
       ELSE Return(r, ByUrlExcept(o))
    /\ UNCHANGED <<fs, args, local>>

(***************************************************************************)
(* The framework sends what the handler returned (or its own 500 for an    *)
(* exception that left the handler); the slot is free again.               *)
(***************************************************************************)
respond(r) ==
    /\ pc[r] \in {"done", "raised"}
    /\ pc' = [pc EXCEPT ![r] = "idle"]
    /\ args' = [args EXCEPT ![r] = NoArgs]
    /\ local' = [local EXCEPT ![r] = NoLocal]
    /\ resp' = [resp EXCEPT ![r] = NoResp]
    /\ calls' = [calls EXCEPT ![r] = <<>>]
    /\ UNCHANGED <<fs, readers>>

(***************************************************************************)
(* The inputs: the directory trees, and what clients request.              *)
(***************************************************************************)
File(parts) == Path(TRUE, parts)

F_a == File(<< <<"d">>, <<"a">> \o VRT >>)

F_sa == File(<< <<"d">>, <<"s">>, <<"a">> \o VRT >>)

F_ta == File(<< <<"d">>, <<"t">>, <<"a">> \o VRT >>)

F_sb == File(<< <<"d">>, <<"s">>, <<"b">> \o VRT >>)

F_ex == File(<< <<"e">>, <<"x">> \o VRT >>)

FileSystems == {{}, {F_sb}, {F_a, F_ex}, {F_sa, F_ta, F_sb}, {F_a, F_sa, F_sb, F_ex}}

Names == {<<"a">>, <<"b">>, <<"z">>, <<"*">>, <<"*", "*">>}

Coords == (-MaxCoord)..MaxCoord

BMP == <<"b", "m", "p">>

Formats == {PNG, JPG, JPEG, WEBP, BMP, <<"P", "N", "G">>}

TileFormats == {PNG, JPG, <<"a", ".", "b">>, <<"a", "/", "b">>, <<>>}

Urls ==
    {<<>>,
     <<"a">> \o VRT,
     <<"s", "/", "a">> \o VRT,
     <<"z">> \o VRT,
     <<"/", "d", "/", "a">> \o VRT,
     <<"/", "e", "/", "x">> \o VRT,
     <<"/", "d">>}

\* what a map client requests: the template with z, x, y substituted
Substitute(template, z, x, y) ==
    Replace(Replace(Replace(template, <<"{", "z", "}">>, IntStr(z)),
                    <<"{", "x", "}">>, IntStr(x)),
            <<"{", "y", "}">>, IntStr(y))

GetTilePaths(names, zs, xys, formats) ==
    {Substitute(TilesTemplate(n, f), z, x, y) : n \in names, z \in zs, x \in xys, y \in xys, f \in formats}

\* "/tiles/{z}/{x}/{y}.{format}"
ByUrlTemplate(format) ==
    <<"/", "t", "i", "l", "e", "s", "/", "{", "z", "}", "/", "{", "x", "}", "/",
      "{", "y", "}", ".">> \o format

ByUrlPaths(zs, xys, formats) ==
    {Substitute(ByUrlTemplate(f), z, x, y) : z \in zs, x \in xys, y \in xys, f \in formats}

TilePaths == GetTilePaths(Names, Coords, Coords, Formats)

TilesPaths == ByUrlPaths(Coords, Coords, Formats)

InitWith(slots, trees) ==
    /\ fs \in trees
    /\ pc = [r \in slots |-> "idle"]
    /\ args = [r \in slots |-> NoArgs]
    /\ local = [r \in slots |-> NoLocal]
    /\ resp = [r \in slots |-> NoResp]
    /\ calls = [r \in slots |-> <<>>]
    /\ readers = {}

(***************************************************************************)
(* The next-state relation over a set of slots and sets of inputs.         *)
(***************************************************************************)
Globbed == fs \cup {NoPath}

Health(slots) == \E r \in slots : health(r)

ListDatasets(slots) ==
    \E r \in slots : Free(r) /\ \E vrts \in Enumerations(Glob(<<"*">> \o VRT)) : list_datasets(r, vrts)

DatasetInfo(slots, names, outcomes, infos) ==
    \E r \in slots :
        \/ Free(r) /\ \E d \in names, first \in Globbed, strict \in BOOLEAN :
                          dataset_info_lookup(r, d, first, strict)
        \/ \E o \in outcomes : dataset_info_open(r, o)
        \/ \E o \in outcomes, info \in infos : dataset_info_info(r, o, info)

DatasetBounds(slots, names, outcomes, infos) ==
    \E r \in slots :
        \/ Free(r) /\ \E d \in names, first \in Globbed, strict \in BOOLEAN :
                          dataset_bounds_lookup(r, d, first, strict)
        \/ \E o \in outcomes : dataset_bounds_open(r, o)
        \/ \E o \in outcomes, info \in infos : dataset_bounds_info(r, o, info)

TileJson(slots, names, formats, outcomes, infos) ==
    \E r \in slots :
        \/ Free(r) /\ \E d \in names, f \in formats, first \in Globbed, strict \in BOOLEAN :
                          tilejson_lookup(r, d, f, first, strict)
        \/ \E o \in outcomes : tilejson_open(r, o)
        \/ \E o \in outcomes, info \in infos : tilejson_info(r, o, info)

GetTile(slots, paths, outcomes) ==
    \E r \in slots :
        \/ Free(r) /\ \E path \in paths, first \in Globbed, strict \in BOOLEAN :
                          get_tile_lookup(r, path, first, strict)
        \/ \E o \in outcomes : get_tile_open(r, o)
        \/ \E o \in outcomes : get_tile_tile(r, o)
        \/ \E o \in outcomes : get_tile_render(r, o)

GetTileByUrl(slots, paths, urls, outcomes) ==
    \E r \in slots :
        \/ Free(r) /\ \E path \in paths, url \in urls : get_tile_by_url_lookup(r, path, url)
        \/ \E o \in outcomes : get_tile_by_url_open(r, o)
        \/ \E o \in outcomes : get_tile_by_url_tile(r, o)
        \/ \E o \in outcomes : get_tile_by_url_render(r, o)

Respond(slots) == \E r \in slots : respond(r)

(***************************************************************************)
(* Spec: one request at a time, every input.                               *)
(***************************************************************************)
Init == InitWith({1}, FileSystems)

Next ==
    \/ Health({1})
    \/ ListDatasets({1})
    \/ DatasetInfo({1}, Names, Outcomes, Infos)
    \/ DatasetBounds({1}, Names, Outcomes, Infos)
    \/ TileJson({1}, Names, TileFormats, Outcomes, Infos)
    \/ GetTile({1}, TilePaths, Outcomes)
    \/ GetTileByUrl({1}, TilesPaths, Urls, Outcomes)
    \/ Respond({1})

Spec == Init /\ [][Next]_vars

(***************************************************************************)
(* SpecConc: MaxReq requests in flight at once, interleaved at every call  *)
(* of a collaborator, over one directory tree and few inputs.              *)
(***************************************************************************)
ConcSlots == 1..MaxReq

ConcTrees == {{F_a, F_sa}}

ConcNames == {<<"a">>, <<"z">>}

ConcOutcomes == {Ok, Oob, Err(<<"b", "o", "o", "m">>)}

ConcInfos == {i \in Infos : "minzoom" \in DOMAIN i}

ConcTilePaths == GetTilePaths(ConcNames, {0}, {0}, {PNG})

ConcTilesPaths == ByUrlPaths({0}, {0}, {PNG})

ConcUrls == {<<>>, <<"a">> \o VRT, <<"z">> \o VRT}

InitConc == InitWith(ConcSlots, ConcTrees)

NextConc ==
    \/ Health(ConcSlots)
    \/ ListDatasets(ConcSlots)
    \/ DatasetInfo(ConcSlots, ConcNames, ConcOutcomes, ConcInfos)
    \/ DatasetBounds(ConcSlots, ConcNames, ConcOutcomes, ConcInfos)
    \/ TileJson(ConcSlots, ConcNames, {PNG}, ConcOutcomes, ConcInfos)
    \/ GetTile(ConcSlots, ConcTilePaths, ConcOutcomes)
    \/ GetTileByUrl(ConcSlots, ConcTilesPaths, ConcUrls, ConcOutcomes)
    \/ Respond(ConcSlots)

SpecConc == InitConc /\ [][NextConc]_vars

(***************************************************************************)
(* SpecPair: a request of the tile-by-name endpoint (slot 1) beside a      *)
(* request of the tile-by-path endpoint (slot 2).                          *)
(***************************************************************************)
PairTrees == {{F_a, F_sa}}

PairNames == {<<"a">>, <<"*">>}

PairFormats == {PNG, JPEG, WEBP, BMP}

PairTilePaths == GetTilePaths(PairNames, {0, 1}, {0}, PairFormats)

PairTilesPaths == ByUrlPaths({0, 1}, {0}, PairFormats)

PairUrls == {<<"a">> \o VRT, <<"s", "/", "a">> \o VRT, <<"/", "d", "/", "a">> \o VRT}

InitPair == InitWith({1, 2}, PairTrees)

NextPair ==
    \/ GetTile({1}, PairTilePaths, ConcOutcomes)
    \/ GetTileByUrl({2}, PairTilesPaths, PairUrls, ConcOutcomes)
    \/ Respond({1, 2})

SpecPair == InitPair /\ [][NextPair]_vars

(***************************************************************************)
(* The properties.                                                         *)
(***************************************************************************)
Slots == DOMAIN pc

TileHandlers == {"get_tile", "get_tile_by_url"}

NameHandlers == {"dataset_info", "dataset_bounds", "tilejson", "get_tile"}

CallsOf(r, ops) == {i \in 1..Len(calls[r]) : calls[r][i].op \in ops}

\* the text after the last "/" of a path string
BaseName(str) == SubSeq(str, RFind(str, "/") + 1, Len(str))

\* C1: on both tile endpoints, once the path resolved to an existing file, a
\* TileOutsideBounds from opening the reader, src.tile or img.render gives
\* 204 with an empty body, and any other error from these steps gives 500
\* with the error's message as body; neither is answered as the other, nor
\* as a 200.
C1_TileErrors ==
    \A r \in Slots :
        args[r].h \in TileHandlers =>
            \A i \in CallsOf(r, {"open", "tile", "render"}) :
                LET o == calls[r][i].result
                IN /\ o.kind = "oob" =>
                        /\ pc[r] = "done"
                        /\ resp[r].status = 204
                        /\ resp[r].body = Text(<<>>)
                   /\ o.kind = "err" =>
                        /\ pc[r] = "done"
                        /\ resp[r].status = 500
                        /\ resp[r].body = Text(o.msg)

C1_Witness ==
    \E r \in Slots :
        /\ args[r].h = "get_tile"
        /\ pc[r] = "done"
        /\ \E i \in CallsOf(r, {"render"}) : calls[r][i].result.kind = "oob"

\* C2: for a dataset name that resolves to no file (root/name.vrt does not
\* exist and the recursive search finds nothing), dataset_info,
\* dataset_bounds, tilejson and get_tile return 404 with a body containing
\* the name, without opening a reader.
C2_NotFound ==
    \A r \in Slots :
        (/\ args[r].h \in NameHandlers
         /\ ~Exists(Path(TRUE, DATA_DIR.parts \o <<args[r].dataset \o VRT>>))
         /\ Glob(args[r].dataset \o VRT) = {})
        => /\ pc[r] = "done"
           /\ resp[r].status = 404
           /\ Contains(resp[r].body.text, args[r].dataset)
           /\ calls[r] = <<>>
           /\ \A h \in readers : h.slot # r

\* C3: a name-based handler opens root/name.vrt when that exists, and
\* otherwise only a file under root whose filename is exactly name.vrt, for
\* every name, wildcard characters included.
C3_ExactName ==
    \A r \in Slots :
        args[r].h \in NameHandlers =>
            \A i \in CallsOf(r, {"open"}) :
                /\ BaseName(calls[r][i].path) = args[r].dataset \o VRT
                /\ StartsWith(calls[r][i].path, PathStr(DATA_DIR) \o <<"/">>)
                /\ Exists(Path(TRUE, DATA_DIR.parts \o <<args[r].dataset \o VRT>>))
                     => calls[r][i].path = PathStr(DATA_DIR) \o <<"/">> \o args[r].dataset \o VRT

\* the table of format tokens: render arguments and media type
C5_Expected(format) ==
    CASE format = PNG -> <<[img_format |-> "PNG"], "image/png">>
      [] format = JPG \/ format = JPEG -> <<[img_format |-> "JPEG", quality |-> 85], "image/jpeg">>
      [] format = WEBP -> <<[img_format |-> "WEBP", quality |-> 85], "image/webp">>
      [] OTHER -> <<[img_format |-> "PNG"], "image/png">>

\* C5: a 200 tile response is encoded and typed by the format token: png ->
\* PNG, image/png; jpg, jpeg -> JPEG quality 85, image/jpeg; webp -> WEBP
\* quality 85, image/webp; anything else -> PNG, image/png; and a request
\* whose reader and encoder calls all succeed is answered 200 whatever the
\* token.
C5_Formats ==
    \A r \in Slots :
        (args[r].h \in TileHandlers /\ pc[r] = "done") =>
            /\ resp[r].status = 200 =>
                 /\ <<resp[r].body.image.kwargs, resp[r].media_type>> = C5_Expected(args[r].format)
                 /\ \A i \in CallsOf(r, {"render"}) :
                        calls[r][i].kwargs = C5_Expected(args[r].format)[1]
            /\ (/\ CallsOf(r, {"render"}) # {}
                /\ \A i \in CallsOf(r, {"open", "tile", "render"}) : calls[r][i].result.kind = "ok")
               => resp[r].status = 200

C5_Witness ==
    \E r \in Slots :
        /\ args[r].h = "get_tile" /\ pc[r] = "done"
        /\ args[r].format = BMP /\ resp[r].status = 200

\* the path string a non-empty url stands for, and whether it is on disk
C6_Target(url) == IF url[1] = "/" THEN url ELSE PathStr(DATA_DIR) \o <<"/">> \o url

C6_OnDisk(str) ==
    \E f \in fs : PathStr(f) = str \/ StartsWith(PathStr(f), str \o <<"/">>)

\* C6: get_tile_by_url answers 400 exactly when url is empty; otherwise it
\* answers 404 exactly when the resolved path (url itself when it starts
\* with "/", else url under the root) does not exist; a reader is opened
\* only when url is non-empty and the resolved path exists.
C6_ByUrlOrder ==
    \A r \in Slots :
        args[r].h = "get_tile_by_url" =>
            LET url == args[r].url
                found == url # <<>> /\ C6_OnDisk(C6_Target(url))
            IN /\ pc[r] = "done" =>
                    /\ resp[r].status = 400 <=> url = <<>>
                    /\ resp[r].status = 404 <=> (url # <<>> /\ ~found)
               /\ (CallsOf(r, {"open"}) # {} \/ \E h \in readers : h.slot = r) => found
               /\ ~found => pc[r] = "done" /\ calls[r] = <<>>
               /\ \A i \in CallsOf(r, {"open"}) : calls[r][i].path = C6_Target(url)

C6_Witness ==
    \E r \in Slots :
        /\ args[r].h = "get_tile_by_url"
        /\ args[r].url = <<"/", "e", "/", "x">> \o VRT
        /\ CallsOf(r, {"open"}) # {}

\* C9: the TileJSON response has exactly one tiles template, and the path
\* got by substituting integers z, x, y into it is matched and served by the
\* tile-by-name route with the same dataset, the same z, x, y and format
\* equal to the requested tile_format, for every tile_format.
C9_TemplateServed ==
    \A r \in Slots :
        (args[r].h = "tilejson" /\ pc[r] = "done" /\ resp[r].status = 200) =>
            /\ Len(resp[r].body.json.tiles) = 1
            /\ \A z, x, y \in 0..1 :
                LET q == RouteGetTile(Substitute(resp[r].body.json.tiles[1], z, x, y))
                IN /\ q.matched
                   /\ q.valid
                   /\ q.dataset = args[r].dataset
                   /\ q.format = args[r].tile_format
                   /\ <<IntOf(q.z), IntOf(q.x), IntOf(q.y)>> = <<z, x, y>>

\* C10: src.tile is called with a tile size of 256 and never with a negative
\* z, x or y, on both tile endpoints, for any request a client can send.
C10_NonNegative ==
    \A r \in Slots :
        args[r].h \in TileHandlers =>
            \A i \in CallsOf(r, {"tile"}) :
                /\ calls[r][i].tilesize = 256
                /\ calls[r][i].z >= 0 /\ calls[r][i].x >= 0 /\ calls[r][i].y >= 0

\* C4: every Reader a handler opened is closed before the handler returns
\* or propagates, on every exit path, so that under any interleaving of
\* requests a handle is open only inside a handler's with block, and none
\* is open once no request is in flight.
C4_ReadersClosed ==
    /\ \A h \in readers : pc[h.slot] \in {"info", "tile", "render"}
    /\ \A r \in Slots :
        pc[r] \in {"done", "raised"} =>
            \A i \in CallsOf(r, {"open"}) :
                calls[r][i].result.kind = "ok" => calls[r][Len(calls[r])].op = "close"
    /\ (\A r \in Slots : pc[r] \in {"idle", "done", "raised"}) => readers = {}

C4_Witness ==
    \E r1, r2 \in Slots :
        /\ pc[r1] = "raised"
        /\ \E i \in CallsOf(r1, {"info"}) : calls[r1][i].result.kind = "err"
        /\ pc[r2] = "render"
        /\ Handle(r2) \in readers

C8_SameOutcomes ==
    /\ Len(calls[1]) = Len(calls[2])
    /\ \A i \in 1..Len(calls[1]) :
        /\ calls[1][i].op = calls[2][i].op
        /\ calls[1][i].op # "close" => calls[1][i].result = calls[2][i].result

\* both returned, having opened the same path for the same tile and format
C8_SameRequest ==
    /\ args[1].h = "get_tile" /\ pc[1] = "done"
    /\ args[2].h = "get_tile_by_url" /\ pc[2] = "done"
    /\ calls[1] # <<>> /\ calls[2] # <<>>
    /\ calls[1][1].path = calls[2][1].path
    /\ <<args[1].z, args[1].x, args[1].y, args[1].format>>
          = <<args[2].z, args[2].x, args[2].y, args[2].format>>

\* C8: get_tile and get_tile_by_url, on the same file, the same z, x, y and
\* format, and the same outcomes of the reader and the encoder, return the
\* same status, media type, headers and body.
C8_Equivalent == (C8_SameRequest /\ C8_SameOutcomes) => resp[1] = resp[2]

C8_Witness ==
    /\ C8_SameRequest /\ C8_SameOutcomes
    /\ args[1].dataset = <<"*">>
    /\ args[2].url = <<"s", "/", "a">> \o VRT
    /\ args[1].format = JPEG
    /\ resp[1].status = 200

====
